---- MODULE Spec2Model ----
(***************************************************************************)
(* Forensic verdict engine of the FactChecker backend: the File/Report     *)
(* tables, the upload and analyze request handlers, the background         *)
(* analysis tasks and the two forensic services that produce the verdict.  *)
(*                                                                         *)
(* Confidences are exact integers in units of 1/10000 (0.9 is 9000), so    *)
(* every product and sum of the services stays an integer.                 *)
(*                                                                         *)
(* The handlers share one database and take no lock: a handler is two      *)
(* steps, its reads and then its commit, and the steps of other requests   *)
(* (served by other workers) and of background tasks may fall in between.  *)
(* A background task is one step, from the return of its analyzer to the   *)
(* end of its transaction.                                                 *)
(*                                                                         *)
(* Spec is the behaviour of the requests and tasks over the tables.  The   *)
(* functions of the services are also run on their own, on every argument  *)
(* of a bounded set.  Pdf service: VerdictSpec (_determine_verdict),       *)
(* CombineSpec (_combine_analysis_results, then _determine_verdict),       *)
(* AnomaliesSpec (_detect_anomalies) and PdfSpec (analyze_pdf).  Image     *)
(* service: ElaSpec (_run_ela_analysis) and CombineResultsSpec             *)
(* (_combine_results).  Text credibility service: AnnouncementSpec         *)
(* (analyze_announcement); its scores are integers in tenths of a point.   *)
(***************************************************************************)
EXTENDS Integers, Sequences, FiniteSets, TLC

\* ------------------------------------------------------------------ bounds
MaxWork == 3           \* requests taken, plus the analyses uploads start
MaxRiskScore == 12     \* risk scores handed to _determine_verdict directly
MaxIndicators == 6     \* indicator counts handed to _determine_verdict directly
MaxObjects == 2        \* suspicious objects in one PDFiD result

\* --------------------------------------------------------------- constants
MAX_FILE_SIZE == 104857600

\* A nullable column: NULL is the empty sequence, a value v is <<v>>.
NULL == <<>>
Some(v) == <<v>>

\* ------------------------------------------------------------------ inputs
\* Uploaded byte strings.
Contents == {<<1>>, <<2>>}

NoType == [major |-> "", minor |-> ""]
PdfType == [major |-> "application", minor |-> "pdf"]

\* (filename, declared content type) pairs an upload may carry.  A
\* filename is its scheme prefix (a client may name a file "s3://x.pdf") and
\* its lower-cased extension.
UploadInputs ==
    { [filename |-> [scheme |-> "", ext |-> "pdf"], content_type |-> PdfType],
      [filename |-> [scheme |-> "", ext |-> "pdf"], content_type |-> NoType],
      [filename |-> [scheme |-> "", ext |-> "png"],
       content_type |-> [major |-> "image", minor |-> "png"]],
      [filename |-> [scheme |-> "", ext |-> "mp4"],
       content_type |-> [major |-> "video", minor |-> "mp4"]],
      [filename |-> [scheme |-> "", ext |-> "txt"],
       content_type |-> [major |-> "text", minor |-> "plain"]],
      [filename |-> [scheme |-> "s3", ext |-> "png"], content_type |-> NoType] }

\* ------------------------------------------------------- fingerprint / type
\* hashlib.sha256(content).hexdigest(): a function of the bytes alone, with no
\* collisions on the byte strings of the model.
RECURSIVE Digest(_)
Digest(bytes) ==
    IF bytes = <<>> THEN 1
    ELSE 257 * Digest(SubSeq(bytes, 1, Len(bytes) - 1)) + bytes[Len(bytes)]

_sha256(content) == Digest(content)

_get_file_type(filename, content_type) ==
    IF content_type # NoType /\ content_type.major = "image" THEN "image"
    ELSE IF content_type # NoType /\ content_type.major = "video" THEN "video"
    ELSE IF content_type # NoType /\ content_type.major = "audio" THEN "audio"
    ELSE IF content_type = PdfType THEN "pdf"
    ELSE IF filename.ext \in {"jpg", "jpeg", "png", "bmp", "tiff", "webp"} THEN "image"
    ELSE IF filename.ext \in {"mp4", "avi", "mov", "mkv", "webm"} THEN "video"
    ELSE IF filename.ext \in {"mp3", "wav", "flac", "aac", "ogg"} THEN "audio"
    ELSE IF filename.ext = "pdf" THEN "pdf"
    ELSE "unknown"

ALLOWED_EXTENSIONS == {"pdf", "jpg", "jpeg", "png", "gif", "bmp", "tiff"}

\* filetype.guess(file_content): the byte strings of the model carry no magic
\* number, so no kind is found and the result is "".
_detect_mime_type(file_content) == NoType

\* mimetypes.guess_type(filename)[0] or "", on the extensions of the model.
guess_type(filename) ==
    IF filename.ext = "pdf" THEN PdfType
    ELSE IF filename.ext \in {"jpg", "jpeg"} THEN [major |-> "image", minor |-> "jpeg"]
    ELSE IF filename.ext \in {"png", "gif", "bmp", "tiff"}
         THEN [major |-> "image", minor |-> filename.ext]
    ELSE IF filename.ext = "mp4" THEN [major |-> "video", minor |-> "mp4"]
    ELSE IF filename.ext = "txt" THEN [major |-> "text", minor |-> "plain"]
    ELSE NoType

\* A validation that looks at no extension: everything that is not a pdf
\* passes as an image.
validate_file_type_any_extension(file_content, filename) ==
    IF filename.ext = "pdf" THEN "pdf" ELSE "image"

\* validate_file_type: the category, or "rejected" where the code raises 400.
validate_file_type(file_content, filename) ==
    LET mime_type == IF _detect_mime_type(file_content) # NoType
                     THEN _detect_mime_type(file_content)
                     ELSE guess_type(filename)
    IN  IF filename.ext \notin ALLOWED_EXTENSIONS THEN "rejected"
        ELSE IF filename.ext = "pdf"
             THEN (IF mime_type = PdfType THEN "pdf" ELSE "rejected")
        ELSE IF filename.ext \in {"jpg", "jpeg", "png", "gif", "bmp", "tiff"}
             THEN (IF mime_type.major = "image" THEN "image" ELSE "rejected")
        ELSE "rejected"

\* ------------------------------------------------------------ storage paths
\* A storage_path is one of:
\*   "supabase_key"  "<type>/<uuid>.<ext>", the object key StorageService returns
\*   "local_file"    "uploads/<uuid>.<ext>", written by the local fallback
\*   "filename"      the client's filename, when both stores failed
\*   "s3_filename"   the same, for a filename that starts with "s3://"
\* Only "local_file" names a readable local file.
IsCloudPath(storage_path) == storage_path = "s3_filename"
IsReadable(storage_path) == storage_path = "local_file"

\* ------------------------------------------------- image forensics service
Min(a, b) == IF a < b THEN a ELSE b
Max(a, b) == IF a > b THEN a ELSE b

\* What the pixel-error analyzer meets on a readable image: an exception
\* somewhere in the ELA pipeline, or a tampering score in hundredths (0..100).
ElaInputs ==
    { [error |-> TRUE, tampering_score |-> 0],
      [error |-> FALSE, tampering_score |-> 80] }

\* What the classifier meets: an exception, or the arg-max class (0 authentic,
\* 1 tampered) with its softmax probability.
CnnInputs ==
    { [error |-> TRUE, prediction |-> 0, confidence |-> 5000],
      [error |-> FALSE, prediction |-> 0, confidence |-> 9000] }

ElaNeutral == [result |-> "authentic", confidence |-> 5000]

\* An ELA that reports a failed analysis as a finding.
_run_ela_analysis_flags_errors(file_path, ela) ==
    IF ~IsReadable(file_path) \/ ela.error
    THEN [result |-> "suspicious", confidence |-> 9500]
    ELSE IF ela.tampering_score > 70
         THEN [result |-> "suspicious",
               confidence |-> Min(9500, 6000 + ela.tampering_score * 30)]
    ELSE IF ela.tampering_score > 40
         THEN [result |-> "suspicious",
               confidence |-> Min(8500, 5000 + ela.tampering_score * 30)]
    ELSE [result |-> "authentic",
          confidence |-> Max(6000, 9000 - ela.tampering_score * 30)]

\* An ELA whose middle band starts at 0.4 itself.
_run_ela_analysis_band_from_40(file_path, ela) ==
    IF ~IsReadable(file_path) \/ ela.error THEN ElaNeutral
    ELSE IF ela.tampering_score > 70
         THEN [result |-> "suspicious",
               confidence |-> Min(9500, 6000 + ela.tampering_score * 30)]
    ELSE IF ela.tampering_score >= 40
         THEN [result |-> "suspicious",
               confidence |-> Min(8500, 5000 + ela.tampering_score * 30)]
    ELSE [result |-> "authentic",
          confidence |-> Max(6000, 9000 - ela.tampering_score * 30)]

_run_ela_analysis(file_path, ela) ==
    IF ~IsReadable(file_path) \/ ela.error THEN ElaNeutral
    ELSE IF ela.tampering_score > 70
         THEN [result |-> "suspicious",
               confidence |-> Min(9500, 6000 + ela.tampering_score * 30)]
    ELSE IF ela.tampering_score > 40
         THEN [result |-> "suspicious",
               confidence |-> Min(8500, 5000 + ela.tampering_score * 30)]
    ELSE [result |-> "authentic",
          confidence |-> Max(6000, 9000 - ela.tampering_score * 30)]

_run_cnn_analysis(file_path, model_loaded, cnn) ==
    IF ~model_loaded
    THEN [result |-> "authentic", confidence |-> 5000]
    ELSE IF ~IsReadable(file_path) \/ cnn.error
    THEN [result |-> "authentic", confidence |-> 5000]
    ELSE [result |-> IF cnn.prediction = 1 THEN "suspicious" ELSE "authentic",
          confidence |-> cnn.confidence]

\* The statements after the first if/else of _combine_results (lines
\* 359-375), run in its place: either "suspicious" wins, at 0.8.
_combine_results_suspicious_wins(ela_result, ela_confidence, cnn_result, cnn_confidence) ==
    IF ela_result = cnn_result
    THEN [verdict |-> ela_result,
          confidence_score |-> (ela_confidence * 6 + cnn_confidence * 4) \div 10]
    ELSE IF ela_result = "suspicious"
         THEN [verdict |-> "suspicious",
               confidence_score |-> (ela_confidence * 8) \div 10]
         ELSE [verdict |-> "suspicious",
               confidence_score |-> (cnn_confidence * 8) \div 10]

\* A combination in which ELA wins a disagreement at equal confidence.
_combine_results_ela_wins_ties(ela_result, ela_confidence, cnn_result, cnn_confidence) ==
    IF ela_result = cnn_result
    THEN [verdict |-> ela_result,
          confidence_score |-> (ela_confidence * 6 + cnn_confidence * 4) \div 10]
    ELSE IF ela_confidence >= cnn_confidence
         THEN [verdict |-> ela_result,
               confidence_score |-> (ela_confidence * 9) \div 10]
         ELSE [verdict |-> cnn_result,
               confidence_score |-> (cnn_confidence * 9) \div 10]

_combine_results(ela_result, ela_confidence, cnn_result, cnn_confidence) ==
    IF ela_result = cnn_result
    THEN [verdict |-> ela_result,
          confidence_score |-> (ela_confidence * 6 + cnn_confidence * 4) \div 10]
    ELSE IF ela_confidence > cnn_confidence
         THEN [verdict |-> ela_result,
               confidence_score |-> (ela_confidence * 9) \div 10]
         ELSE [verdict |-> cnn_result,
               confidence_score |-> (cnn_confidence * 9) \div 10]

\* The result of an analyzer call: raised, or the verdict with its signals.
\* signals maps each report's analysis_type to (result, confidence).
Raised == [raised |-> TRUE, verdict |-> "", confidence_score |-> 0,
           signals |-> <<>>]

\* ImageForensicsService.analyze_image.  A cloud path needs
\* `from services.storage import storage_service`, a name storage.py does not
\* define: the import raises and analyze_image re-raises.
analyze_image(file_path, model_loaded, ela, cnn) ==
    IF IsCloudPath(file_path) THEN Raised
    ELSE LET e == _run_ela_analysis(file_path, ela)
             c == _run_cnn_analysis(file_path, model_loaded, cnn)
             o == _combine_results(e.result, e.confidence, c.result, c.confidence)
         IN  [raised |-> FALSE, verdict |-> o.verdict,
              confidence_score |-> o.confidence_score,
              signals |-> << [analysis_type |-> "image_ela", result |-> e.result,
                              confidence_score |-> e.confidence],
                             [analysis_type |-> "image_cnn", result |-> c.result,
                              confidence_score |-> c.confidence] >>]

\* --------------------------------------------------- pdf forensics service
\* What PDFiD reports on a readable file: a failure (non-zero exit, timeout),
\* or its parsed suspicious objects.
PdfidOutputs ==
    { [error |-> TRUE, suspicious_objects |-> <<>>],
      [error |-> FALSE, suspicious_objects |-> <<>>] }

\* What pikepdf finds in a readable file: a corrupt file, or the anomalies
\* and suspicious structure elements of the document.
PdfDocs ==
    { [corrupt |-> TRUE, anomalies |-> <<>>, suspicious_elements |-> <<>>],
      [corrupt |-> FALSE, anomalies |-> <<>>, suspicious_elements |-> <<>>],
      [corrupt |-> FALSE,
       anomalies |-> << [type |-> "time_anomaly", severity |-> "high"] >>,
       suspicious_elements |-> << [element |-> "JavaScript", risk |-> "high"] >>] }

PdfidError == [error |-> TRUE, suspicious_objects |-> <<>>]

\* A PDF date string after its "D:" prefix: the fourteen digits, here the
\* second they denote, and the time zone that follows them: none, "Z", or
\* the +HH'mm' of the PDF standard.  All dates of the model lie in one zone,
\* so the digits order the instants.
DateDigits == {0, 59, 60}
DateZones == {"", "Z", "+05'30'"}
PdfDates == [digits : DateDigits, zone : DateZones]

\* _parse_pdf_date: strptime with "%Y%m%d%H%M%S" gives a naive datetime, with
\* "%Y%m%d%H%M%S%z" an aware one ("Z" is a %z offset, +05'30' is not); the two
\* quoted formats need a quote before the sign.  None is NULL.
_parse_pdf_date(date_str) ==
    IF date_str.zone = "" THEN Some([t |-> date_str.digits, aware |-> FALSE])
    ELSE IF date_str.zone = "Z" THEN Some([t |-> date_str.digits, aware |-> TRUE])
    ELSE NULL

\* The allow-list of _detect_anomalies and the producer strings of the
\* model with the entries each contains once lower-cased.
suspicious_producers ==
    {"adobe", "acrobat", "pdf", "word", "excel", "libreoffice", "openoffice"}

Producers == {"", "Adobe PDF Library 15.0", "GPL Ghostscript 9.55"}

EntriesIn(producer) ==
    IF producer = "Adobe PDF Library 15.0" THEN {"adobe", "pdf"} ELSE {}

\* The docinfo dictionary: each key is absent (NULL) or has a value.
Metadatas ==
    [CreationDate : {NULL} \cup {Some(d) : d \in PdfDates},
     ModDate : {NULL} \cup {Some(d) : d \in PdfDates},
     Producer : {NULL} \cup {Some(p) : p \in Producers},
     Creator : {NULL, Some("Writer")}]

\* Lines 278-309: the comparison of the two dates.  Comparing a naive with
\* an aware datetime raises TypeError, which line 308 catches.
time_anomalies(metadata) ==
    IF metadata.CreationDate = NULL \/ metadata.ModDate = NULL THEN <<>>
    ELSE LET creation_date == _parse_pdf_date(metadata.CreationDate[1])
             mod_date == _parse_pdf_date(metadata.ModDate[1])
         IN  IF creation_date = NULL \/ mod_date = NULL THEN <<>>
             ELSE IF creation_date[1].aware # mod_date[1].aware THEN <<>>
             ELSE IF mod_date[1].t < creation_date[1].t
                  THEN << [type |-> "time_anomaly", severity |-> "high"] >>
             ELSE IF mod_date[1].t - creation_date[1].t < 60
                  THEN << [type |-> "time_suspicious", severity |-> "medium"] >>
             ELSE <<>>

_detect_anomalies(metadata) ==
    LET producer == IF metadata.Producer = NULL THEN "" ELSE metadata.Producer[1]
    IN  time_anomalies(metadata)
        \o (IF metadata.Producer = NULL /\ metadata.Creator = NULL
            THEN << [type |-> "metadata_missing", severity |-> "medium"] >>
            ELSE <<>>)
        \o (IF producer # "" /\ EntriesIn(producer) \cap suspicious_producers = {}
            THEN << [type |-> "suspicious_producer", severity |-> "medium"] >>
            ELSE <<>>)

\* What _analyze_pdf_structure looks at: /JavaScript under the trailer's
\* /Names, /AcroForm in the trailer, the number of annotations.
Structures ==
    [names_javascript : BOOLEAN, acroform : BOOLEAN, annotation_count : {0, 11}]

_analyze_pdf_structure(pdf) ==
    (IF pdf.names_javascript
     THEN << [element |-> "JavaScript", risk |-> "high"] >> ELSE <<>>)
    \o (IF pdf.acroform
        THEN << [element |-> "AcroForm", risk |-> "medium"] >> ELSE <<>>)
    \o (IF pdf.annotation_count > 10
        THEN << [element |-> "Annotations", risk |-> "medium"] >> ELSE <<>>)

\* The document pikepdf opens: corrupt, or its anomalies and structure.
PdfFile(corrupt, metadata, structure) ==
    [corrupt |-> corrupt,
     anomalies |-> IF corrupt THEN <<>> ELSE _detect_anomalies(metadata),
     suspicious_elements |->
         IF corrupt THEN <<>> ELSE _analyze_pdf_structure(structure)]

\* The entries _parse_pdfid_output makes for suspicious object types: one
\* per type, with the type's risk level and its occurrence count.
SuspiciousObjects ==
    { [type |-> o[1], risk_level |-> o[2], count |-> n] :
        o \in {<<"/JS", "high">>, <<"/AcroForm", "medium">>, <<"/RichMedia", "low">>},
        n \in {1, 3} }

\* The lists of at most n such entries, no type twice.
RECURSIVE ObjectLists(_)
ObjectLists(n) ==
    IF n = 0 THEN {<<>>}
    ELSE ObjectLists(n - 1) \cup
         { l \in { Append(k, o) : k \in ObjectLists(n - 1), o \in SuspiciousObjects } :
             \A i, j \in DOMAIN l : i # j => l[i].type # l[j].type }

\* A PDFiD step that returns an empty scan where the run failed.
_run_pdfid_analysis_unmarked(file_path, out) ==
    [error |-> FALSE, suspicious_objects |-> <<>>]

_run_pdfid_analysis(file_path, out) ==
    IF ~IsReadable(file_path) THEN PdfidError ELSE out

_run_pikepdf_analysis(file_path, doc) ==
    IF ~IsReadable(file_path) \/ doc.corrupt
    THEN [error |-> TRUE, anomalies |-> <<>>, suspicious_elements |-> <<>>]
    ELSE [error |-> FALSE, anomalies |-> doc.anomalies,
          suspicious_elements |-> doc.suspicious_elements]

\* A weighting in which a low-risk finding takes a point off.
Weight_low_discount(level) ==
    IF level = "high" THEN 3 ELSE IF level = "medium" THEN 2 ELSE 0 - 1

Weight(level) == IF level = "high" THEN 3 ELSE IF level = "medium" THEN 2 ELSE 1

RECURSIVE ObjectScore(_)
ObjectScore(objs) ==
    IF objs = <<>> THEN 0 ELSE Weight(Head(objs).risk_level) + ObjectScore(Tail(objs))

RECURSIVE AnomalyScore(_)
AnomalyScore(anoms) ==
    IF anoms = <<>> THEN 0 ELSE Weight(Head(anoms).severity) + AnomalyScore(Tail(anoms))

RECURSIVE Occurrences(_)
Occurrences(objs) ==
    IF objs = <<>> THEN 0 ELSE Head(objs).count + Occurrences(Tail(objs))

\* A combination that lists one indicator per occurrence of an object type.
_combine_analysis_results_per_occurrence(pdfid_results, pikepdf_results) ==
    [risk_score |-> ObjectScore(pdfid_results.suspicious_objects)
                    + AnomalyScore(pikepdf_results.anomalies)
                    + 2 * Len(pikepdf_results.suspicious_elements),
     risk_indicators |-> Occurrences(pdfid_results.suspicious_objects)
                         + Len(pikepdf_results.anomalies)
                         + Len(pikepdf_results.suspicious_elements)]

\* A combination that counts a failed sub-analysis as a finding of its own.
_combine_analysis_results_counts_errors(pdfid_results, pikepdf_results) ==
    LET failed == (IF pdfid_results.error THEN 1 ELSE 0)
                  + (IF pikepdf_results.error THEN 1 ELSE 0)
    IN  [risk_score |-> ObjectScore(pdfid_results.suspicious_objects)
                        + AnomalyScore(pikepdf_results.anomalies)
                        + 2 * Len(pikepdf_results.suspicious_elements)
                        + 2 * failed,
         risk_indicators |-> Len(pdfid_results.suspicious_objects)
                             + Len(pikepdf_results.anomalies)
                             + Len(pikepdf_results.suspicious_elements)
                             + failed]

_combine_analysis_results(pdfid_results, pikepdf_results) ==
    [risk_score |-> ObjectScore(pdfid_results.suspicious_objects)
                    + AnomalyScore(pikepdf_results.anomalies)
                    + 2 * Len(pikepdf_results.suspicious_elements),
     risk_indicators |-> Len(pdfid_results.suspicious_objects)
                         + Len(pikepdf_results.anomalies)
                         + Len(pikepdf_results.suspicious_elements)]

\* A mapping whose top bucket starts above 8.
_determine_verdict_top_above_8(risk_score, total_indicators) ==
    IF risk_score > 8 \/ total_indicators >= 5
    THEN [verdict |-> "suspicious", confidence |-> Min(9500, 7000 + risk_score * 300)]
    ELSE IF risk_score >= 4 \/ total_indicators >= 2
    THEN [verdict |-> "suspicious", confidence |-> Min(8500, 6000 + risk_score * 400)]
    ELSE IF risk_score >= 2
    THEN [verdict |-> "suspicious", confidence |-> Min(7500, 5000 + risk_score * 500)]
    ELSE [verdict |-> "authentic", confidence |-> Max(7000, 9000 - risk_score * 1000)]

_determine_verdict(risk_score, total_indicators) ==
    IF risk_score >= 8 \/ total_indicators >= 5
    THEN [verdict |-> "suspicious", confidence |-> Min(9500, 7000 + risk_score * 300)]
    ELSE IF risk_score >= 4 \/ total_indicators >= 2
    THEN [verdict |-> "suspicious", confidence |-> Min(8500, 6000 + risk_score * 400)]
    ELSE IF risk_score >= 2
    THEN [verdict |-> "suspicious", confidence |-> Min(7500, 5000 + risk_score * 500)]
    ELSE [verdict |-> "authentic", confidence |-> Max(7000, 9000 - risk_score * 1000)]

\* PDFForensicsService.analyze_pdf.  A cloud path raises as in analyze_image.
analyze_pdf(file_path, pdfid_available, out, doc) ==
    IF IsCloudPath(file_path) THEN Raised
    ELSE LET pdfid_results == IF pdfid_available
                              THEN _run_pdfid_analysis(file_path, out)
                              ELSE PdfidError
             pikepdf_results == _run_pikepdf_analysis(file_path, doc)
             a == _combine_analysis_results(pdfid_results, pikepdf_results)
             v == _determine_verdict(a.risk_score, a.risk_indicators)
         IN  [raised |-> FALSE, verdict |-> v.verdict,
              confidence_score |-> v.confidence,
              signals |-> << [analysis_type |-> "pdf_forensics",
                              result |-> v.verdict,
                              confidence_score |-> v.confidence] >>,
              evidence |-> [pdfid_analysis |-> pdfid_results,
                            pikepdf_analysis |-> pikepdf_results,
                            summary |-> a]]

\* ------------------------------------------------ text credibility service
\* _analyze_red_flags: the labels handed to the zero-shot classifier.
red_flag_categories ==
    { "promotional hype", "unrealistic projections", "vague language",
      "conflicting information", "suspicious timing", "lack of details",
      "overly optimistic claims" }

\* What the regular expressions of the service find in a text: a match of a
\* promotional pattern, of a vague pattern, the crore figure of a revenue
\* claim and of a profit claim.  An empty text matches nothing.
Texts ==
    { [empty |-> e, promotional |-> p, vague |-> v, revenue |-> r, profit |-> f] :
        e \in BOOLEAN, p \in BOOLEAN, v \in BOOLEAN,
        r \in {NULL, Some(150), Some(200)}, f \in {NULL, Some(200)} }

AnnouncementTexts ==
    { t \in Texts :
        t.empty => (~t.promotional /\ ~t.vague /\ t.revenue = NULL /\ t.profit = NULL) }

\* The models of the service.  Neither is loaded (None), or each answers a
\* call: the classifier raises or scores some labels above 0.7, the
\* sentiment analyzer raises or gives a label with its score in hundredths.
ClassifierRuns ==
    { [raises |-> TRUE, flagged |-> {}] }
    \cup { [raises |-> FALSE, flagged |-> l] : l \in SUBSET red_flag_categories }

SentimentRuns ==
    { [raises |-> TRUE, label |-> "", score |-> 0] }
    \cup { [raises |-> FALSE, label |-> l, score |-> sc] :
              l \in {"NEGATIVE", "POSITIVE"}, sc \in {60, 90} }
    \cup { [raises |-> FALSE, label |-> "neutral", score |-> 90] }

\* The company_financials row of the announcement's company: none, or its
\* last_quarter_revenue_cr and last_quarter_profit_cr (nullable).
CompanyFinancials ==
    { NULL } \cup
    { Some([last_quarter_revenue_cr |-> r, last_quarter_profit_cr |-> f]) :
        r \in {NULL, Some(100)}, f \in {NULL, Some(100)} }

\* The flags are distinct labels, so the list is kept as their set.
_fallback_red_flag_analysis(text) ==
    (IF text.promotional THEN {"promotional_hype"} ELSE {})
    \cup (IF text.vague THEN {"vague_language"} ELSE {})

_analyze_red_flags(text, zero_shot_classifier) ==
    IF text.empty \/ zero_shot_classifier = NULL
    THEN _fallback_red_flag_analysis(text)
    ELSE IF zero_shot_classifier[1].raises
         THEN _fallback_red_flag_analysis(text)
         ELSE zero_shot_classifier[1].flagged

_analyze_sentiment(text, sentiment_analyzer) ==
    IF text.empty \/ sentiment_analyzer = NULL
    THEN [label |-> "neutral", score |-> 50]
    ELSE IF sentiment_analyzer[1].raises
         THEN [label |-> "neutral", score |-> 50]
         ELSE [label |-> sentiment_analyzer[1].label,
               score |-> sentiment_analyzer[1].score]

_extract_numerical_claims(text) ==
    (IF text.revenue = NULL THEN {}
     ELSE {[type |-> "revenue", value |-> text.revenue[1]]})
    \cup (IF text.profit = NULL THEN {}
          ELSE {[type |-> "profit", value |-> text.profit[1]]})

Abs(x) == IF x < 0 THEN -x ELSE x

\* abs(claimed - historical) / historical * 100 > 50, for historical > 0
diff_percentage_above_50(claimed, historical) ==
    Abs(claimed - historical) * 100 > 50 * historical

\* The value of "anomaly_detected" in the dictionary returned.
_check_historical_anomaly(text, company_financial) ==
    LET numerical_claims == _extract_numerical_claims(text)
    IN  IF numerical_claims = {} \/ company_financial = NULL THEN FALSE
        ELSE \E claim \in numerical_claims :
                /\ claim.type = "revenue"
                /\ company_financial[1].last_quarter_revenue_cr # NULL
                /\ company_financial[1].last_quarter_revenue_cr[1] > 0
                /\ diff_percentage_above_50(claim.value,
                       company_financial[1].last_quarter_revenue_cr[1])

\* A score left as the penalties make it.
_calculate_credibility_score_unclamped(analysis_results) ==
    100 - 15 * Cardinality(analysis_results.red_flags)
        - (IF analysis_results.sentiment.label = "NEGATIVE" THEN 20
           ELSE IF analysis_results.sentiment.label = "POSITIVE"
                   /\ analysis_results.sentiment.score > 80 THEN 10
           ELSE 0)
        - (IF analysis_results.anomaly_detected THEN 30 ELSE 0)

\* The score in tenths of a point (10.0 is 100).
_calculate_credibility_score(analysis_results) ==
    LET red_flag_penalty == Cardinality(analysis_results.red_flags) * 15
        sentiment == analysis_results.sentiment
        sentiment_penalty ==
            IF sentiment.label = "NEGATIVE" THEN 20
            ELSE IF sentiment.label = "POSITIVE" /\ sentiment.score > 80 THEN 10
            ELSE 0
        anomaly_penalty == IF analysis_results.anomaly_detected THEN 30 ELSE 0
        base_score == 100 - red_flag_penalty - sentiment_penalty - anomaly_penalty
    IN  Max(0, Min(100, base_score))

\* ------------------------------------------------------------------- state
VARIABLES
    files,            \* the files table, in insertion order (row id = index)
    reports,          \* the reports table
    tasks,            \* background tasks, in the order they were added
    reqs,             \* requests between their read of the table and their commit
    blobs,            \* objects written to storage (bucket or uploads/)
    work,             \* requests taken so far (see Take)
    resp,             \* the last response sent
    model_loaded,     \* ImageForensicsService.model is not None
    pdfid_available,  \* PDFForensicsService.pdfid_available
    svc               \* a service function called on its own: arguments, results

config == <<model_loaded, pdfid_available>>

vars == <<files, reports, tasks, reqs, blobs, work, resp, config, svc>>

\* Where the bytes of an upload go: the bucket when save_file succeeds
\* ("supabase"), else the local uploads directory of /public/upload ("local"),
\* nowhere when that write fails too ("none").
StoreOutcomes == {"supabase", "local", "none"}

NoResp == [op |-> "", code |-> 0, file_id |-> 0, status |-> "", message |-> ""]

Response(op, code, file_id, status, message) ==
    [op |-> op, code |-> code, file_id |-> file_id, status |-> status,
     message |-> message]

\* No service function is being called on its own.
NoCall == [op |-> "", pc |-> "idle"]

\* raise HTTPException(status_code, detail): the error response.
HTTPException(status_code, detail) == Response("", status_code, 0, "", detail)

Init ==
    /\ files = <<>>
    /\ reports = {}
    /\ tasks = <<>>
    /\ reqs = {}
    /\ blobs = 0
    /\ work = 0
    /\ resp = NoResp
    /\ model_loaded \in BOOLEAN
    /\ pdfid_available \in BOOLEAN
    /\ svc = NoCall

\* FileModel(...): a new row, analysis_status "pending", no verdict.
FileModel(file_id, file_type, file_hash, storage_path) ==
    [file_id |-> file_id, file_type |-> file_type, file_hash |-> file_hash,
     storage_path |-> storage_path, analysis_status |-> "pending",
     verdict |-> NULL, confidence_score |-> NULL]

\* background_tasks.add_task(fn, file_id, storage_path)
add_task(fn, file_id, storage_path) ==
    Append(tasks, [fn |-> fn, file_id |-> file_id, storage_path |-> storage_path,
                   pc |-> "scheduled"])

\* A lookup that finds no row.
existing_by_hash_none(file_hash) == {}

\* db.query(FileModel).filter(FileModel.file_hash == file_hash): the row ids.
existing_by_hash(file_hash) ==
    {i \in DOMAIN files : files[i].file_hash = file_hash}

\* db.query(FileModel).filter(FileModel.file_id == file_id): the row ids.
row_by_file_id(file_id) ==
    {i \in DOMAIN files : files[i].file_id = file_id}

public_storage_path(store, filename) ==
    IF store = "supabase" THEN "supabase_key"
    ELSE IF store = "local" THEN "local_file"
    ELSE IF filename.scheme = "s3" THEN "s3_filename"
    ELSE "filename"

\* Uploads name their contents in order of first appearance: <<2>> is not
\* uploaded before <<1>> (the two are interchangeable).
Seen(content) ==
    \/ content = <<1>>
    \/ \E i \in DOMAIN files : files[i].file_hash = _sha256(<<1>>)
    \/ \E r \in reqs : r.file_hash = _sha256(<<1>>)

\* Requests are taken up to MaxWork; an upload that is going to start its
\* own analysis counts twice.
Take(n) == work + n <= MaxWork /\ work' = work + n

\* The id of a new request in flight: the least one not in use.
NewRid ==
    CHOOSE n \in 1..(MaxWork + 1) :
        /\ \A r \in reqs : r.rid # n
        /\ \A m \in 1..(n - 1) : \E r \in reqs : r.rid = m

\* ------------------------------------------------------- POST /public/upload
\* public.py upload_file up to the duplicate check: hash, type, storage, lookup.
public_upload_file(content, input, storage) ==
    /\ Seen(content)
    /\ LET file_hash == _sha256(content)
           file_type == _get_file_type(input.filename, input.content_type)
           existing == existing_by_hash(file_hash)
       IN  IF file_type = "unknown"
           THEN /\ Take(1)
                /\ resp' = HTTPException(400, "Unsupported file type")
                /\ UNCHANGED <<reqs, blobs>>
           ELSE /\ blobs' = IF storage = "none" THEN blobs ELSE blobs + 1
                /\ IF existing # {}
                   THEN /\ Take(1)
                        /\ \E i \in existing :
                              resp' = Response("public_upload", 200, files[i].file_id,
                                               files[i].analysis_status,
                                               "File already uploaded")
                        /\ UNCHANGED reqs
                   ELSE /\ Take(IF file_type \in {"pdf", "image"} THEN 2 ELSE 1)
                        /\ reqs' = reqs \cup
                              {[op |-> "public_upload", rid |-> NewRid,
                                file_id |-> 0, file_type |-> file_type,
                                file_hash |-> file_hash,
                                storage_path |->
                                    public_storage_path(storage, input.filename)]}
                        /\ UNCHANGED resp
    /\ UNCHANGED <<files, reports, tasks, config, svc>>

\* public.py upload_file from the insert on: the row, the commit, the task.
public_upload_file_commit(r, commit_ok) ==
    /\ r \in reqs
    /\ r.op = "public_upload"
    /\ reqs' = reqs \ {r}
    /\ IF commit_ok
       THEN LET file_id == Len(files) + 1
            IN  /\ files' = Append(files, FileModel(file_id, r.file_type,
                                                    r.file_hash, r.storage_path))
                /\ tasks' = IF r.file_type = "pdf"
                            THEN add_task("_run_public_pdf_analysis", file_id,
                                          r.storage_path)
                            ELSE IF r.file_type = "image"
                            THEN add_task("_run_public_image_analysis", file_id,
                                          r.storage_path)
                            ELSE tasks
                /\ resp' = Response("public_upload", 200, file_id, "pending",
                                    "File uploaded successfully")
       ELSE /\ resp' = HTTPException(500, "Upload failed")
            /\ UNCHANGED <<files, tasks>>
    /\ UNCHANGED <<reports, blobs, work, config, svc>>

\* ---------------------------------------------------------- POST /api/upload
\* upload.py upload_file: size, type, storage, insert; no duplicate check.
api_upload_file(content, input, storage, commit_ok) ==
    /\ Seen(content)
    /\ Take(1)
    /\ LET file_type == validate_file_type(content, input.filename)
       IN  IF Len(content) > MAX_FILE_SIZE
           THEN /\ resp' = HTTPException(413, "File size exceeds maximum")
                /\ UNCHANGED <<files, blobs>>
           ELSE IF file_type = "rejected"
           THEN /\ resp' = HTTPException(400, "File type not allowed")
                /\ UNCHANGED <<files, blobs>>
           ELSE IF storage # "supabase"
           THEN /\ resp' = HTTPException(500, "Failed to upload file")
                /\ UNCHANGED <<files, blobs>>
           ELSE IF ~commit_ok
           THEN /\ resp' = HTTPException(500, "Failed to upload file")
                /\ blobs' = blobs + 1
                /\ UNCHANGED files
           ELSE /\ blobs' = blobs + 1
                /\ files' = Append(files, FileModel(Len(files) + 1, file_type,
                                                    _sha256(content), "supabase_key"))
                /\ resp' = Response("api_upload", 200, Len(files) + 1, "uploaded",
                                    "File uploaded successfully. Ready for analysis.")
    /\ UNCHANGED <<reports, tasks, reqs, config, svc>>

\* --------------------------------------- POST /analyze/pdf, /analyze/image
\* A status check that lets every request through.
already_in_progress_never(row) == FALSE

\* analyze.py line 47 / 108: the only status that stops a new analysis.
already_in_progress(row) == row.analysis_status = "processing"

in_progress_message(kind) ==
    IF kind = "pdf" THEN "PDF analysis already in progress"
    ELSE "Image analysis already in progress"

\* Analyze endpoints that take a Job of any file_type.
analyze_request_any_type(kind, file_id) ==
    /\ Take(1)
    /\ LET rows == row_by_file_id(file_id)
           op == IF kind = "pdf" THEN "analyze_pdf" ELSE "analyze_image"
       IN  IF rows = {}
           THEN /\ resp' = HTTPException(404, "File not found")
                /\ UNCHANGED reqs
           ELSE LET i == CHOOSE i \in rows : TRUE
                IN  IF already_in_progress(files[i])
                    THEN /\ resp' = Response(op, 200, file_id, "processing",
                                             in_progress_message(kind))
                         /\ UNCHANGED reqs
                    ELSE
                         /\ reqs' = reqs \cup
                               {[op |-> op, rid |-> NewRid, file_id |-> file_id,
                                 file_type |-> kind, file_hash |-> 0,
                                 storage_path |-> files[i].storage_path]}
                         /\ UNCHANGED resp
    /\ UNCHANGED <<files, reports, tasks, blobs, config, svc>>

\* analyze_pdf / analyze_image up to the status check: 404, 400, "already in
\* progress", or on to the claim of the Job.
analyze_request(kind, file_id) ==
    /\ Take(1)
    /\ LET rows == row_by_file_id(file_id)
           op == IF kind = "pdf" THEN "analyze_pdf" ELSE "analyze_image"
       IN  IF rows = {}
           THEN /\ resp' = HTTPException(404, "File not found")
                /\ UNCHANGED reqs
           ELSE LET i == CHOOSE i \in rows : TRUE
                IN  IF files[i].file_type # kind
                    THEN /\ resp' = HTTPException(400, IF kind = "pdf" THEN "File is not a PDF"
                                                           ELSE "File is not an image")
                         /\ UNCHANGED reqs
                    ELSE IF already_in_progress(files[i])
                    THEN /\ resp' = Response(op, 200, file_id, "processing",
                                             in_progress_message(kind))
                         /\ UNCHANGED reqs
                    ELSE
                         /\ reqs' = reqs \cup
                               {[op |-> op, rid |-> NewRid, file_id |-> file_id,
                                 file_type |-> kind, file_hash |-> 0,
                                 storage_path |-> files[i].storage_path]}
                         /\ UNCHANGED resp
    /\ UNCHANGED <<files, reports, tasks, blobs, config, svc>>

\* analyze_pdf / analyze_image from "Update status to processing" on.
analyze_claim(kind, r, commit_ok) ==
    LET op == IF kind = "pdf" THEN "analyze_pdf" ELSE "analyze_image"
        fn == IF kind = "pdf" THEN "run_pdf_analysis" ELSE "run_image_analysis"
    IN  /\ r \in reqs
        /\ r.op = op
        /\ reqs' = reqs \ {r}
        /\ IF commit_ok
           THEN /\ files' = [i \in DOMAIN files |->
                               IF files[i].file_id = r.file_id
                               THEN [files[i] EXCEPT !.analysis_status = "processing"]
                               ELSE files[i]]
                /\ tasks' = add_task(fn, r.file_id, r.storage_path)
                /\ resp' = Response(op, 200, r.file_id, "processing",
                                    IF kind = "pdf" THEN "PDF analysis started"
                                    ELSE "Image analysis started")
           ELSE /\ resp' = HTTPException(500, IF kind = "pdf"
                                              THEN "Failed to start PDF analysis"
                                              ELSE "Failed to start image analysis")
                /\ UNCHANGED <<files, tasks>>
        /\ UNCHANGED <<reports, blobs, work, config, svc>>

post_analyze_pdf(file_id) == analyze_request("pdf", file_id)
post_analyze_image(file_id) == analyze_request("image", file_id)
post_analyze_pdf_commit(r, commit_ok) == analyze_claim("pdf", r, commit_ok)
post_analyze_image_commit(r, commit_ok) == analyze_claim("image", r, commit_ok)

\* --------------------------------------------------------- background tasks
\* ReportModel(...) rows of one task, one per signal.
ReportRows(t, row_id, signals) ==
    {[task |-> t, file_id |-> row_id, analysis_type |-> signals[k].analysis_type,
      result |-> signals[k].result,
      confidence_score |-> signals[k].confidence_score] : k \in DOMAIN signals}

\* A write of the verdict and the status that leaves the reports for later.
persist_result_status_only(t, result) ==
    /\ files' = [i \in DOMAIN files |->
                    IF files[i].file_id = tasks[t].file_id
                    THEN [files[i] EXCEPT !.verdict = Some(result.verdict),
                                          !.confidence_score =
                                              Some(result.confidence_score),
                                          !.analysis_status = "completed"]
                    ELSE files[i]]
    /\ UNCHANGED reports

\* The write of a finished analysis: verdict, confidence, status, reports, in
\* one commit.
persist_result(t, result) ==
    /\ files' = [i \in DOMAIN files |->
                    IF files[i].file_id = tasks[t].file_id
                    THEN [files[i] EXCEPT !.verdict = Some(result.verdict),
                                          !.confidence_score =
                                              Some(result.confidence_score),
                                          !.analysis_status = "completed"]
                    ELSE files[i]]
    /\ reports' = reports \cup
          UNION {ReportRows(t, i, result.signals) : i \in row_by_file_id(tasks[t].file_id)}

\* The except branch of a task: mark the Job failed; an error in there passes.
mark_failed(t, handler_ok) ==
    /\ files' = [i \in DOMAIN files |->
                    IF files[i].file_id = tasks[t].file_id /\ handler_ok
                    THEN [files[i] EXCEPT !.analysis_status = "failed"]
                    ELSE files[i]]
    /\ UNCHANGED reports

\* A task from the return (or raise) of its analyzer call to its end.
\* persist_ok: the commit of the result succeeds; handler_ok: the query and
\* commit of the except branch succeed.
finish_task(t, fn, result, persist_ok, handler_ok) ==
    /\ t \in DOMAIN tasks
    /\ tasks[t].fn = fn
    /\ tasks[t].pc = "scheduled"
    /\ IF ~result.raised /\ persist_ok
       THEN /\ persist_result(t, result)
       ELSE /\ mark_failed(t, handler_ok)
    /\ tasks' = [tasks EXCEPT ![t].pc = "done"]
    /\ UNCHANGED <<reqs, blobs, work, resp, config, svc>>

\* result.get(a) or result.get(b), on strings and on numbers.
or_str(a, b) == IF a = "" THEN b ELSE a
or_num(a, b) == IF a = 0 THEN b ELSE a

\* The fields _run_public_image_analysis reads from the analyzer's result:
\* each signal falls back to the overall value when it is empty or zero.
public_image_fields(result) ==
    [result EXCEPT !.signals =
        [k \in DOMAIN result.signals |->
            [result.signals[k] EXCEPT
                !.result = or_str(@, result.verdict),
                !.confidence_score = or_num(@, result.confidence_score)]]]

run_pdf_analysis(t, out, doc, persist_ok, handler_ok) ==
    /\ t \in DOMAIN tasks
    /\ finish_task(t, "run_pdf_analysis",
                   analyze_pdf(tasks[t].storage_path, pdfid_available, out, doc),
                   persist_ok, handler_ok)

run_image_analysis(t, ela, cnn, persist_ok, handler_ok) ==
    /\ t \in DOMAIN tasks
    /\ finish_task(t, "run_image_analysis",
                   analyze_image(tasks[t].storage_path, model_loaded, ela, cnn),
                   persist_ok, handler_ok)

_run_public_pdf_analysis(t, out, doc, persist_ok, handler_ok) ==
    /\ t \in DOMAIN tasks
    /\ finish_task(t, "_run_public_pdf_analysis",
                   analyze_pdf(tasks[t].storage_path, pdfid_available, out, doc),
                   persist_ok, handler_ok)

_run_public_image_analysis(t, ela, cnn, persist_ok, handler_ok) ==
    /\ t \in DOMAIN tasks
    /\ finish_task(t, "_run_public_image_analysis",
                   public_image_fields(
                       analyze_image(tasks[t].storage_path, model_loaded, ela, cnn)),
                   persist_ok, handler_ok)

\* The awaited analyzer call never returns: no timeout wraps it.
analyzer_hangs(t) ==
    /\ t \in DOMAIN tasks
    /\ tasks[t].pc = "scheduled"
    /\ tasks' = [tasks EXCEPT ![t].pc = "hung"]
    /\ UNCHANGED <<files, reports, reqs, blobs, work, resp, config, svc>>

\* ---------------------------------------------------------------- behaviour
TaskIds == 1..MaxWork
FileIds == 1..MaxWork

Next ==
    \/ \E c \in Contents, u \in UploadInputs, s \in StoreOutcomes :
          public_upload_file(c, u, s)
    \/ \E r \in reqs, ok \in BOOLEAN : public_upload_file_commit(r, ok)
    \/ \E c \in Contents, u \in UploadInputs, s \in StoreOutcomes, ok \in BOOLEAN :
          api_upload_file(c, u, s, ok)
    \/ \E f \in FileIds : post_analyze_pdf(f)
    \/ \E f \in FileIds : post_analyze_image(f)
    \/ \E r \in reqs, ok \in BOOLEAN : post_analyze_pdf_commit(r, ok)
    \/ \E r \in reqs, ok \in BOOLEAN : post_analyze_image_commit(r, ok)
    \/ \E t \in TaskIds, o \in PdfidOutputs, d \in PdfDocs, p \in BOOLEAN, h \in BOOLEAN :
          run_pdf_analysis(t, o, d, p, h)
    \/ \E t \in TaskIds, e \in ElaInputs, c \in CnnInputs, p \in BOOLEAN, h \in BOOLEAN :
          run_image_analysis(t, e, c, p, h)
    \/ \E t \in TaskIds, o \in PdfidOutputs, d \in PdfDocs, p \in BOOLEAN, h \in BOOLEAN :
          _run_public_pdf_analysis(t, o, d, p, h)
    \/ \E t \in TaskIds, e \in ElaInputs, c \in CnnInputs, p \in BOOLEAN, h \in BOOLEAN :
          _run_public_image_analysis(t, e, c, p, h)
    \/ \E t \in TaskIds : analyzer_hangs(t)

Spec == Init /\ [][Next]_vars

\* ------------------------------------------- the pdf service on its own
\* A function of PDFForensicsService called on its arguments alone: the
\* tables stay empty and svc holds the arguments, then the results.
NoJobs ==
    /\ files = <<>>
    /\ reports = {}
    /\ tasks = <<>>
    /\ reqs = {}
    /\ blobs = 0
    /\ work = 0
    /\ resp = NoResp
    /\ model_loaded = FALSE

JobsIdle == UNCHANGED <<files, reports, tasks, reqs, blobs, work, resp, config>>

\* _determine_verdict on any summary: a risk_score and a number of
\* risk_indicators.
VerdictInit ==
    /\ NoJobs
    /\ pdfid_available = FALSE
    /\ \E r \in 0..MaxRiskScore, n \in 0..MaxIndicators :
          svc = [op |-> "_determine_verdict", pc |-> "combined",
                 summary |-> [risk_score |-> r, risk_indicators |-> n],
                 verdict |-> "", confidence |-> 0]

\* analyze_pdf line 88: verdict, confidence = self._determine_verdict(...)
determine_verdict ==
    /\ svc.pc = "combined"
    /\ LET v == _determine_verdict(svc.summary.risk_score,
                                   svc.summary.risk_indicators)
       IN  svc' = [svc EXCEPT !.pc = "returned", !.verdict = v.verdict,
                              !.confidence = v.confidence]
    /\ JobsIdle

VerdictNext == determine_verdict

VerdictSpec == VerdictInit /\ [][VerdictNext]_vars

\* _combine_analysis_results, then _determine_verdict, on the results the
\* two sub-analyses can hand over.
PdfidResults ==
    {PdfidError} \cup
    { [error |-> FALSE, suspicious_objects |-> l] : l \in ObjectLists(MaxObjects) }

PikepdfResults ==
    { _run_pikepdf_analysis("local_file", PdfFile(c, m, st)) :
        c \in BOOLEAN, m \in Metadatas, st \in Structures }

CombineInit ==
    /\ NoJobs
    /\ pdfid_available = FALSE
    /\ \E a \in PdfidResults, b \in PikepdfResults :
          svc = [op |-> "_combine_analysis_results", pc |-> "called",
                 pdfid_results |-> a, pikepdf_results |-> b,
                 summary |-> [risk_score |-> 0, risk_indicators |-> 0],
                 verdict |-> "", confidence |-> 0]

\* analyze_pdf line 85: combined_analysis = self._combine_analysis_results(...)
combine_analysis_results ==
    /\ svc.op = "_combine_analysis_results"
    /\ svc.pc = "called"
    /\ svc' = [svc EXCEPT !.pc = "combined",
                          !.summary = _combine_analysis_results(
                                          svc.pdfid_results, svc.pikepdf_results)]
    /\ JobsIdle

CombineNext == combine_analysis_results \/ determine_verdict

CombineSpec == CombineInit /\ [][CombineNext]_vars

\* _detect_anomalies on any docinfo dictionary.
AnomaliesInit ==
    /\ NoJobs
    /\ pdfid_available = FALSE
    /\ \E m \in Metadatas :
          svc = [op |-> "_detect_anomalies", pc |-> "called", metadata |-> m,
                 anomalies |-> <<>>]

\* _run_pikepdf_analysis line 215: results["anomalies"] = self._detect_anomalies(...)
detect_anomalies ==
    /\ svc.op = "_detect_anomalies"
    /\ svc.pc = "called"
    /\ svc' = [svc EXCEPT !.pc = "returned",
                          !.anomalies = _detect_anomalies(svc.metadata)]
    /\ JobsIdle

AnomaliesNext == detect_anomalies

AnomaliesSpec == AnomaliesInit /\ [][AnomaliesNext]_vars

\* analyze_pdf on a storage path, with or without PDFiD installed, whatever
\* the PDFiD run and the document turn out to be.
PdfidRuns ==
    { [error |-> TRUE, cause |-> c, suspicious_objects |-> <<>>] :
        c \in {"exit status", "timeout", "not found"} }
    \cup { [error |-> FALSE, cause |-> "", suspicious_objects |-> <<>>] }

PdfFiles ==
    { PdfFile(c, m, st) : c \in BOOLEAN, m \in Metadatas, st \in Structures }

StoragePaths == {"local_file", "filename", "s3_filename"}

PdfInit ==
    /\ NoJobs
    /\ pdfid_available \in BOOLEAN
    /\ \E file_path \in StoragePaths, out \in PdfidRuns, doc \in PdfFiles :
          svc = [op |-> "analyze_pdf", pc |-> "called", file_path |-> file_path,
                 out |-> out, doc |-> doc, result |-> Raised]

\* run_pdf_analysis line 150: analysis_result = await pdf_service.analyze_pdf(...)
call_analyze_pdf ==
    /\ svc.op = "analyze_pdf"
    /\ svc.pc = "called"
    /\ LET result == analyze_pdf(svc.file_path, pdfid_available, svc.out, svc.doc)
       IN  svc' = [svc EXCEPT !.pc = IF result.raised THEN "raised" ELSE "returned",
                              !.result = result]
    /\ JobsIdle

PdfNext == call_analyze_pdf

PdfSpec == PdfInit /\ [][PdfNext]_vars

\* ----------------------------------------- the image service on its own
\* _analyze_ela_patterns returns min(1.0, ...) of a non-negative number, or
\* 0.0: a tampering score in hundredths.
TamperingScores == 0..100

\* _run_ela_analysis on a readable image, whatever its tampering score, or
\* with an exception in the pipeline.
ElaInit ==
    /\ NoJobs
    /\ pdfid_available = FALSE
    /\ \E error \in BOOLEAN, s \in TamperingScores :
          /\ error => s = 0
          /\ svc = [op |-> "_run_ela_analysis", pc |-> "called",
                    file_path |-> "local_file",
                    ela |-> [error |-> error, tampering_score |-> s],
                    result |-> "", confidence |-> 0]

\* analyze_image line 111: ela_result, ela_confidence, ... = self._run_ela_analysis(...)
run_ela_analysis ==
    /\ svc.op = "_run_ela_analysis"
    /\ svc.pc = "called"
    /\ LET e == _run_ela_analysis(svc.file_path, svc.ela)
       IN  svc' = [svc EXCEPT !.pc = "returned", !.result = e.result,
                              !.confidence = e.confidence]
    /\ JobsIdle

ElaNext == run_ela_analysis

ElaSpec == ElaInit /\ [][ElaNext]_vars

\* The signals the two analyzers can hand to _combine_results.  ELA: the
\* neutral result of a failed analysis, or a confidence of its three bands;
\* the classifier: the neutral result, or a class with its softmax
\* probability (above one half for the class that is not the first).
ElaSignals ==
    { [result |-> "authentic", confidence |-> c] : c \in {5000, 7800, 8000, 9000} }
    \cup { [result |-> "suspicious", confidence |-> c] : c \in {6500, 9000} }

CnnSignals ==
    { [result |-> "authentic", confidence |-> c] :
        c \in {5000, 6000, 6500, 8000, 9000, 10000} }
    \cup { [result |-> "suspicious", confidence |-> c] :
        c \in {6000, 6500, 8000, 9000, 10000} }

CombineResultsInit ==
    /\ NoJobs
    /\ pdfid_available = FALSE
    /\ \E e \in ElaSignals, c \in CnnSignals :
          svc = [op |-> "_combine_results", pc |-> "called",
                 ela_result |-> e.result, ela_confidence |-> e.confidence,
                 cnn_result |-> c.result, cnn_confidence |-> c.confidence,
                 verdict |-> "", confidence_score |-> 0]

\* analyze_image line 120: overall_verdict, overall_confidence = self._combine_results(...)
combine_results ==
    /\ svc.op = "_combine_results"
    /\ svc.pc = "called"
    /\ LET o == _combine_results(svc.ela_result, svc.ela_confidence,
                                 svc.cnn_result, svc.cnn_confidence)
       IN  svc' = [svc EXCEPT !.pc = "returned", !.verdict = o.verdict,
                              !.confidence_score = o.confidence_score]
    /\ JobsIdle

CombineResultsNext == combine_results

CombineResultsSpec == CombineResultsInit /\ [][CombineResultsNext]_vars

\* ------------------------------- the text credibility service on its own
\* analyze_announcement on any text, with or without the models, whatever
\* the models answer and whatever the company's row holds.
AnnouncementInit ==
    /\ NoJobs
    /\ pdfid_available = FALSE
    /\ \E text \in AnnouncementTexts, loaded \in BOOLEAN,
          c \in ClassifierRuns, a \in SentimentRuns, f \in CompanyFinancials :
          /\ ~loaded => (c.raises /\ a.raises)
          /\ svc = [op |-> "analyze_announcement", pc |-> "called",
                    full_text |-> text,
                    zero_shot_classifier |-> IF loaded THEN Some(c) ELSE NULL,
                    sentiment_analyzer |-> IF loaded THEN Some(a) ELSE NULL,
                    company_financial |-> f,
                    status |-> "pending",
                    analysis_results |->
                        [red_flags |-> {},
                         sentiment |-> [label |-> "", score |-> 0],
                         anomaly_detected |-> FALSE],
                    credibility_score |-> NULL]

\* IntelligenceAnalysisService.analyze_announcement, to its last commit.
analyze_announcement ==
    /\ svc.op = "analyze_announcement"
    /\ svc.pc = "called"
    /\ LET analysis_results ==
               [red_flags |-> _analyze_red_flags(svc.full_text,
                                                 svc.zero_shot_classifier),
                sentiment |-> _analyze_sentiment(svc.full_text,
                                                 svc.sentiment_analyzer),
                anomaly_detected |-> _check_historical_anomaly(
                                         svc.full_text, svc.company_financial)]
       IN  svc' = [svc EXCEPT
                     !.pc = "returned",
                     !.status = "analyzed",
                     !.analysis_results = analysis_results,
                     !.credibility_score =
                         Some(_calculate_credibility_score(analysis_results))]
    /\ JobsIdle

AnnouncementNext == analyze_announcement

AnnouncementSpec == AnnouncementInit /\ [][AnnouncementNext]_vars

\* ------------------------------------------------------------------- claims
Terminal == {"completed", "failed"}
AnalyzeTasks == {"run_pdf_analysis", "run_image_analysis"}
ImageTasks == {"run_image_analysis", "_run_public_image_analysis"}

\* The rows a task writes to, and the tasks of a Job.
RowsOfTask(t) == row_by_file_id(tasks[t].file_id)
TasksOfJob(file_id) == {t \in DOMAIN tasks : tasks[t].file_id = file_id}

\* C1: once a Job's analysis_status is completed or failed, no step of any
\* request or task changes it.
C1_TerminalStatesFinal ==
    [][\A i \in DOMAIN files :
          files[i].analysis_status \in Terminal
              => files'[i].analysis_status = files[i].analysis_status]_vars

\* C2: the analyze requests for one file_id never have two background tasks
\* pending or running for that Job at once, however the requests interleave.
C2_OneAnalyzeTaskPerJob ==
    \A f \in FileIds :
        Cardinality({t \in TasksOfJob(f) :
                        tasks[t].fn \in AnalyzeTasks /\ tasks[t].pc # "done"}) <= 1

\* C3: no two rows of the files table carry the same file_hash.
C3_OneJobPerFingerprint ==
    \A i, j \in DOMAIN files :
        files[i].file_hash = files[j].file_hash => i = j

\* The /public/upload call before this state created the Job resp.file_id
\* from the bytes `content`, and no other row carries their fingerprint.
FirstUploadReturned(content) ==
    /\ resp.op = "public_upload"
    /\ resp.message = "File uploaded successfully"
    /\ \A i \in DOMAIN files :
          files[i].file_hash = _sha256(content) <=> files[i].file_id = resp.file_id
    /\ row_by_file_id(resp.file_id) # {}

\* A second /public/upload of the same bytes, under any supported name and
\* type, right after the first returned.
SecondUpload(content, input, store) ==
    /\ FirstUploadReturned(content)
    /\ _get_file_type(input.filename, input.content_type) # "unknown"
    /\ public_upload_file(content, input, store)

\* The second upload answers with the first's Job and changes no row or task.
ReusesFirstJob ==
    /\ resp'.message = "File already uploaded"
    /\ resp'.file_id = resp.file_id
    /\ UNCHANGED <<files, tasks, reqs>>

\* C4 as stated: after two sequential /public/upload calls with the same
\* bytes the second returns the first's Job, and exactly one background task
\* has been scheduled for it.
C4_ExtractorsExactlyOnce ==
    [][\A c \in Contents, u \in UploadInputs, s \in StoreOutcomes :
          SecondUpload(c, u, s)
              => /\ ReusesFirstJob
                 /\ Cardinality({t \in DOMAIN tasks' :
                                    tasks'[t].file_id = resp.file_id}) = 1]_vars

\* C4 amended: the second call returns the first's Job and schedules nothing;
\* that Job has one background task when it is a pdf or an image and none
\* when it is video or audio.
C4_SequentialUploadIdempotent ==
    [][\A c \in Contents, u \in UploadInputs, s \in StoreOutcomes :
          SecondUpload(c, u, s)
              => /\ ReusesFirstJob
                 /\ \A i \in row_by_file_id(resp.file_id) :
                       Cardinality({t \in DOMAIN tasks' :
                                       tasks'[t].file_id = resp.file_id})
                           = IF files[i].file_type \in {"pdf", "image"}
                             THEN 1 ELSE 0]_vars

\* A second upload was answered from the first's Job, under another name.
C4_Witness ==
    /\ resp.op = "public_upload"
    /\ resp.message = "File already uploaded"
    /\ \E i \in DOMAIN files :
          /\ files[i].file_id = resp.file_id
          /\ files[i].file_type = "pdf"
          /\ Cardinality(TasksOfJob(resp.file_id)) = 1
    /\ Len(files) = 1

\* C5: a Job leaves pending only for processing, so no extractor result is
\* written to a Job that is still pending.
C5_ProcessingBeforeExtraction ==
    [][\A i \in DOMAIN files :
          files[i].analysis_status = "pending"
              => files'[i].analysis_status \in {"pending", "processing"}]_vars

\* C6: an analyze request that finds the Job processing answers "already in
\* progress" with status processing, adds no task and no pending claim, and
\* leaves every row and report as it was.
C6_InProgressIsNoOp ==
    [][\A kind \in {"pdf", "image"}, f \in FileIds :
          ( /\ analyze_request(kind, f)
            /\ \E i \in row_by_file_id(f) :
                  files[i].file_type = kind /\ files[i].analysis_status = "processing" )
              => /\ resp' = Response(IF kind = "pdf" THEN "analyze_pdf"
                                     ELSE "analyze_image",
                                     200, f, "processing", in_progress_message(kind))
                 /\ UNCHANGED <<files, tasks, reports, reqs>>]_vars

\* An analyze request was answered "already in progress" for a Job that is
\* processing.
C6_Witness ==
    /\ resp.message \in {in_progress_message("pdf"), in_progress_message("image")}
    /\ \E i \in row_by_file_id(resp.file_id) :
          files[i].analysis_status = "processing"

\* The step that ends task t: its analyzer has returned or raised, and the
\* result or the failure went to the table.
Ends(t) == t \in DOMAIN tasks /\ tasks[t].pc = "scheduled" /\ tasks'[t].pc = "done"

\* C7: a task whose analyzer raises, or whose commit of the result raises,
\* leaves its Job failed.
C7_ErrorEndsFailed ==
    [][\A t \in TaskIds, e \in ElaInputs, c \in CnnInputs, o \in PdfidOutputs,
          d \in PdfDocs, p \in BOOLEAN, h \in BOOLEAN :
          ( \/ /\ \/ run_pdf_analysis(t, o, d, p, h)
                  \/ _run_public_pdf_analysis(t, o, d, p, h)
               /\ \/ analyze_pdf(tasks[t].storage_path, pdfid_available, o, d).raised
                  \/ ~p
            \/ /\ \/ run_image_analysis(t, e, c, p, h)
                  \/ _run_public_image_analysis(t, e, c, p, h)
               /\ \/ analyze_image(tasks[t].storage_path, model_loaded, e, c).raised
                  \/ ~p )
              => \A i \in RowsOfTask(t) : files'[i].analysis_status = "failed"]_vars

\* C8: a Job that is processing has a task that is still going to write its
\* status; otherwise nothing is left that could take it out of processing.
C8_ProcessingHasLiveTask ==
    \A i \in DOMAIN files :
        files[i].analysis_status = "processing"
            => \/ \E t \in TasksOfJob(files[i].file_id) : tasks[t].pc = "scheduled"
               \/ \E r \in reqs : r.file_id = files[i].file_id

\* C9: a task whose storage_path names no readable local file never leaves
\* its Job completed.
C9_UnreadableNeverCompleted ==
    [][\A t \in TaskIds :
          (Ends(t) /\ ~IsReadable(tasks[t].storage_path))
              => \A i \in RowsOfTask(t) : files'[i].analysis_status # "completed"]_vars

\* The report of task t for one analysis_type is the neutral signal.
NeutralReport(t, analysis_type) ==
    \A r \in reports' :
        (r.task = t /\ r.analysis_type = analysis_type)
            => r.result = "authentic" /\ r.confidence_score = 5000

ReportsOfJob(i) == {r \in reports : r.file_id = i}

\* C11: a Job whose analysis_status is failed has no Report row, no verdict
\* and no confidence_score, whichever step of its task failed.
C11_FailedHasNoResult ==
    \A i \in DOMAIN files :
        files[i].analysis_status = "failed"
            => /\ ReportsOfJob(i) = {}
               /\ files[i].verdict = NULL
               /\ files[i].confidence_score = NULL

\* C12: verdict and confidence_score are null while a Job is pending or
\* processing; on a completed Job both are set and the confidence_score lies
\* in [0.0, 1.0].
C12_ResultIffCompleted ==
    \A i \in DOMAIN files :
        /\ files[i].analysis_status \in {"pending", "processing"}
              => files[i].verdict = NULL /\ files[i].confidence_score = NULL
        /\ files[i].analysis_status = "completed"
              => /\ files[i].verdict # NULL
                 /\ files[i].confidence_score # NULL
                 /\ files[i].confidence_score[1] \in 0..10000

\* C13: a Job never has two Report rows of one analysis_type.
C13_OneReportPerType ==
    \A r1, r2 \in reports :
        (r1.file_id = r2.file_id /\ r1.analysis_type = r2.analysis_type)
            => r1 = r2

\* An upload of no supported modality: /public/upload knows no category for
\* its declared type or its extension; /api/upload does not list its extension.
UnsupportedForPublic(input) ==
    /\ input.content_type.major \notin {"image", "video", "audio"}
    /\ input.content_type # PdfType
    /\ input.filename.ext \notin {"jpg", "jpeg", "png", "bmp", "tiff", "webp",
                                  "mp4", "avi", "mov", "mkv", "webm",
                                  "mp3", "wav", "flac", "aac", "ogg", "pdf"}

UnsupportedForApi(input) ==
    input.filename.ext \notin {"pdf", "jpg", "jpeg", "png", "gif", "bmp", "tiff"}

\* C14: an upload of unsupported modality (and of a size within
\* MAX_FILE_SIZE) is answered 400 and leaves the files table, the storage,
\* the background tasks and the requests in flight as they were.
C14_UnsupportedRejectedBeforeJob ==
    [][\A c \in Contents, u \in UploadInputs, s \in StoreOutcomes, ok \in BOOLEAN :
          ( \/ public_upload_file(c, u, s) /\ UnsupportedForPublic(u)
            \/ api_upload_file(c, u, s, ok) /\ UnsupportedForApi(u) )
              => /\ resp'.code = 400
                 /\ UNCHANGED <<files, blobs, tasks, reqs, reports>>]_vars

\* An upload was rejected as unsupported after another one had been stored:
\* the table and the storage still hold that one upload only.
C14_Witness ==
    /\ resp.code = 400
    /\ resp.message \in {"Unsupported file type", "File type not allowed"}
    /\ work = 2
    /\ Len(files) = 1
    /\ blobs = 1
    /\ tasks = <<>>
    /\ reqs = {}

\* The bucket the verdict mapping puts (risk_score, n) in, 1 the top one.
Bucket(risk_score, n) ==
    IF risk_score >= 8 \/ n >= 5 THEN 1
    ELSE IF risk_score >= 4 \/ n >= 2 THEN 2
    ELSE IF risk_score >= 2 THEN 3
    ELSE 4

\* C15: for every risk_score and indicator count n, _determine_verdict
\* returns suspicious min(0.95, 0.70 + 0.03 r) in the top bucket (r >= 8 or
\* n >= 5), suspicious min(0.85, 0.60 + 0.04 r) in the second (r >= 4 or
\* n >= 2), suspicious min(0.75, 0.50 + 0.05 r) in the third (r >= 2), else
\* authentic max(0.70, 0.90 - 0.10 r); with n < 5, 8 is in the top bucket
\* and 7 in the second.
C15_VerdictMapping ==
    (svc.op = "_determine_verdict" /\ svc.pc = "returned")
        => LET r == svc.summary.risk_score
               n == svc.summary.risk_indicators
               b == Bucket(r, n)
           IN  /\ svc.verdict = IF b = 4 THEN "authentic" ELSE "suspicious"
               /\ b = 1 => svc.confidence = Min(9500, 7000 + 300 * r)
               /\ b = 2 => svc.confidence = Min(8500, 6000 + 400 * r)
               /\ b = 3 => svc.confidence = Min(7500, 5000 + 500 * r)
               /\ b = 4 => svc.confidence = Max(7000, 9000 - 1000 * r)
               /\ (r = 8 /\ n < 5) => svc.confidence = 9400
               /\ (r = 7 /\ n < 5) => svc.confidence = 8500

\* _determine_verdict has returned for risk_score 8 with no indicator count
\* in its favour: suspicious, 0.94.
C15_Witness ==
    /\ svc.op = "_determine_verdict"
    /\ svc.pc = "returned"
    /\ svc.summary = [risk_score |-> 8, risk_indicators |-> 0]
    /\ svc.verdict = "suspicious"
    /\ svc.confidence = 9400

\* The constructs found in a document: the suspicious objects PDFiD lists and
\* the suspicious elements of the structure; its metadata anomalies.
ObjectsFound == IF svc.pdfid_results.error THEN <<>>
                ELSE svc.pdfid_results.suspicious_objects
ElementsFound == svc.pikepdf_results.suspicious_elements
AnomaliesFound == svc.pikepdf_results.anomalies

\* The risk levels of all findings, and 3, 2 or 1 points for each.
LevelsFound ==
    [i \in DOMAIN ObjectsFound |-> ObjectsFound[i].risk_level]
    \o [i \in DOMAIN ElementsFound |-> ElementsFound[i].risk]
    \o [i \in DOMAIN AnomaliesFound |-> AnomaliesFound[i].severity]

RECURSIVE Points(_)
Points(levels) ==
    IF levels = <<>> THEN 0
    ELSE (CASE Head(levels) = "high" -> 3
            [] Head(levels) = "medium" -> 2
            [] OTHER -> 1) + Points(Tail(levels))

\* One high-risk JavaScript construct and a modification-before-creation
\* anomaly, nothing else.
JavaScriptAndTimeAnomaly ==
    /\ AnomaliesFound = << [type |-> "time_anomaly", severity |-> "high"] >>
    /\ Len(ObjectsFound) + Len(ElementsFound) = 1
    /\ \/ \E i \in DOMAIN ObjectsFound : ObjectsFound[i].type = "/JS"
       \/ \E i \in DOMAIN ElementsFound : ElementsFound[i].element = "JavaScript"

\* C16: the risk_score is 3, 2 or 1 points per suspicious construct type
\* found, by its risk level, plus 3, 2 or 1 per metadata anomaly, by its
\* severity, and nothing else; a JavaScript construct with a
\* modification-before-creation anomaly scores 6: suspicious, 0.84.
C16_RiskScoreIsWeightedSum ==
    (svc.op = "_combine_analysis_results" /\ svc.pc = "returned")
        => /\ svc.summary.risk_score = Points(LevelsFound)
           /\ JavaScriptAndTimeAnomaly
                 => /\ svc.summary.risk_score = 6
                    /\ svc.verdict = "suspicious"
                    /\ svc.confidence = 8400

\* The verdict _determine_verdict gives a summary.
VerdictOf(summary) ==
    _determine_verdict(summary.risk_score, summary.risk_indicators).verdict

\* The summary of the findings with one more suspicious object, or one more
\* suspicious structure element.
WithObject(o) ==
    _combine_analysis_results(
        [error |-> FALSE, suspicious_objects |-> Append(ObjectsFound, o)],
        svc.pikepdf_results)

WithElement(e) ==
    _combine_analysis_results(
        svc.pdfid_results,
        [svc.pikepdf_results EXCEPT !.suspicious_elements = Append(@, e)])

NeverLess(more) ==
    /\ more.risk_score >= svc.summary.risk_score
    /\ svc.verdict = "suspicious" => VerdictOf(more) = "suspicious"

\* C17: whatever the findings, one more suspicious construct of high, medium
\* or low risk never lowers the risk_score and never turns a suspicious
\* verdict into authentic.
C17_MonotonicRisk ==
    (svc.op = "_combine_analysis_results" /\ svc.pc = "returned")
        => /\ \A o \in SuspiciousObjects : NeverLess(WithObject(o))
           /\ \A st \in Structures :
                 \A i \in DOMAIN _analyze_pdf_structure(st) :
                    NeverLess(WithElement(_analyze_pdf_structure(st)[i]))

\* A document whose one finding, a /JS object, makes it suspicious with
\* risk_score 3: the findings another construct is added to.
C17_Witness ==
    /\ svc.op = "_combine_analysis_results"
    /\ svc.pc = "returned"
    /\ Len(ObjectsFound) = 1
    /\ ObjectsFound[1].type = "/JS"
    /\ ElementsFound = <<>>
    /\ AnomaliesFound = <<>>
    /\ svc.summary.risk_score = 3
    /\ svc.verdict = "suspicious"

\* C18: a document with no findings is authentic with confidence at least
\* 0.70; and on every summary _combine_analysis_results produces, the verdict
\* is authentic exactly when the risk_score is at most 1.
C18_AuthenticIffLowRisk ==
    (svc.op = "_combine_analysis_results" /\ svc.pc = "returned")
        => /\ svc.verdict = "authentic" <=> svc.summary.risk_score <= 1
           /\ LevelsFound = <<>>
                 => /\ svc.summary = [risk_score |-> 0, risk_indicators |-> 0]
                    /\ svc.verdict = "authentic"
                    /\ svc.confidence >= 7000

\* A document whose only finding is one low-risk object type that occurs
\* three times: risk_score 1, one indicator, authentic 0.8.
C18_Witness ==
    /\ svc.op = "_combine_analysis_results"
    /\ svc.pc = "returned"
    /\ Len(ObjectsFound) = 1
    /\ ObjectsFound[1].risk_level = "low"
    /\ ObjectsFound[1].count = 3
    /\ svc.summary = [risk_score |-> 1, risk_indicators |-> 1]
    /\ svc.verdict = "authentic"
    /\ svc.confidence = 8000

\* The anomalies _detect_anomalies returned, as (type, severity) records.
Reported == {svc.anomalies[i] : i \in DOMAIN svc.anomalies}

\* Both timestamps are there and written in the same time zone, so that
\* their digits say which is the earlier.
Comparable(metadata) ==
    /\ metadata.CreationDate # NULL
    /\ metadata.ModDate # NULL
    /\ metadata.CreationDate[1].zone = metadata.ModDate[1].zone

SecondsAfterCreation(metadata) ==
    metadata.ModDate[1].digits - metadata.CreationDate[1].digits

\* C19: _detect_anomalies reports one high-severity anomaly when the
\* modification timestamp is earlier than the creation timestamp, one
\* medium-severity anomaly when it follows it by less than 60 seconds, one
\* medium when producer and creator are both missing, one medium when the
\* producer matches no entry of the allow-list; and nothing else.
C19_AnomalyRules ==
    (svc.op = "_detect_anomalies" /\ svc.pc = "returned")
        => LET m == svc.metadata
               high == [type |-> "time_anomaly", severity |-> "high"]
               close == [type |-> "time_suspicious", severity |-> "medium"]
               missing == [type |-> "metadata_missing", severity |-> "medium"]
               unusual == [type |-> "suspicious_producer", severity |-> "medium"]
           IN  /\ Reported \subseteq {high, close, missing, unusual}
               /\ Cardinality(Reported) = Len(svc.anomalies)
               /\ Comparable(m)
                     => /\ high \in Reported <=> SecondsAfterCreation(m) < 0
                        /\ close \in Reported <=> SecondsAfterCreation(m) \in 0..59
               /\ (m.CreationDate = NULL \/ m.ModDate = NULL)
                     => high \notin Reported /\ close \notin Reported
               /\ missing \in Reported <=> (m.Producer = NULL /\ m.Creator = NULL)
               /\ unusual \in Reported
                     <=> /\ m.Producer # NULL
                         /\ m.Producer # Some("")
                         /\ \A sp \in suspicious_producers :
                               sp \notin EntriesIn(m.Producer[1])

\* The security scan gave no result: PDFiD is not installed, or its run
\* failed (exit status, timeout, binary not found).
ScanFailed == ~pdfid_available \/ svc.out.error

\* What the metadata and the structure of the document alone amount to.
MetadataOnly ==
    LET seen == IsReadable(svc.file_path) /\ ~svc.doc.corrupt
        anomalies == IF seen THEN svc.doc.anomalies ELSE <<>>
        elements == IF seen THEN svc.doc.suspicious_elements ELSE <<>>
    IN  _determine_verdict(
            Points([i \in DOMAIN anomalies |-> anomalies[i].severity])
                + 2 * Len(elements),
            Len(anomalies) + Len(elements))

\* C20: when PDFiD is unavailable, times out or fails, analyze_pdf (on a
\* local path) does not raise: it returns the verdict of the metadata and
\* structure evidence alone, and the evidence carries an error marker as its
\* pdfid_analysis.
C20_ScanFailureDegrades ==
    (svc.op = "analyze_pdf" /\ ~IsCloudPath(svc.file_path) /\ ScanFailed)
        => /\ svc.pc # "raised"
           /\ svc.pc = "returned"
                 => /\ svc.result.evidence.pdfid_analysis.error
                    /\ svc.result.verdict = MetadataOnly.verdict
                    /\ svc.result.confidence_score = MetadataOnly.confidence

\* analyze_pdf has returned after a PDFiD timeout: the document is
\* suspicious on its metadata and structure, the scan is marked as failed.
C20_Witness ==
    /\ svc.op = "analyze_pdf"
    /\ svc.pc = "returned"
    /\ pdfid_available
    /\ svc.out.cause = "timeout"
    /\ svc.file_path = "local_file"
    /\ svc.doc.anomalies # <<>>
    /\ svc.result.verdict = "suspicious"
    /\ svc.result.evidence.pdfid_analysis.error

Combined == svc.op = "_combine_results" /\ svc.pc = "returned"

Agree == svc.ela_result = svc.cnn_result

\* _combine_results was given these two signals and returned this pair.
Gives(ela_result, ela_confidence, cnn_result, cnn_confidence, verdict, confidence) ==
    (/\ svc.ela_result = ela_result
     /\ svc.ela_confidence = ela_confidence
     /\ svc.cnn_result = cnn_result
     /\ svc.cnn_confidence = cnn_confidence)
    => (svc.verdict = verdict /\ svc.confidence_score = confidence)

\* C22: _combine_results returns, when the two categories agree, that
\* category with 0.6 * ELA confidence + 0.4 * classifier confidence; when they
\* disagree, the category of the signal of higher confidence with 0.9 times
\* that confidence: (suspicious, 0.9) with (authentic, 0.5) gives
\* (suspicious, 0.81), (authentic, 0.8) with (authentic, 0.6) gives
\* (authentic, 0.72).  The rule of the statements after the first if/else,
\* "suspicious" at 0.8 times its confidence, is applied to no input.
C22_CombinationRule ==
    Combined =>
        /\ Agree =>
              /\ svc.verdict = svc.ela_result
              /\ 10 * svc.confidence_score =
                     6 * svc.ela_confidence + 4 * svc.cnn_confidence
        /\ (~Agree /\ svc.ela_confidence > svc.cnn_confidence) =>
              /\ svc.verdict = svc.ela_result
              /\ 10 * svc.confidence_score = 9 * svc.ela_confidence
        /\ (~Agree /\ svc.cnn_confidence > svc.ela_confidence) =>
              /\ svc.verdict = svc.cnn_result
              /\ 10 * svc.confidence_score = 9 * svc.cnn_confidence
        /\ (~Agree /\ svc.cnn_confidence = svc.ela_confidence) =>
              /\ svc.verdict \in {svc.ela_result, svc.cnn_result}
              /\ 10 * svc.confidence_score = 9 * svc.ela_confidence
        /\ Gives("suspicious", 9000, "authentic", 5000, "suspicious", 8100)
        /\ Gives("authentic", 8000, "authentic", 6000, "authentic", 7200)
        /\ ~Agree =>
              /\ 10 * svc.confidence_score
                     \notin {8 * svc.ela_confidence, 8 * svc.cnn_confidence}
              /\ (svc.ela_result = "suspicious"
                      /\ svc.ela_confidence < svc.cnn_confidence)
                    => svc.verdict = "authentic"
              /\ (svc.cnn_result = "suspicious"
                      /\ svc.cnn_confidence < svc.ela_confidence)
                    => svc.verdict = "authentic"

\* A suspicious ELA of 0.9 against an authentic classifier of 0.5 has been
\* combined.
C22_Witness ==
    /\ Combined
    /\ svc.ela_result = "suspicious" /\ svc.ela_confidence = 9000
    /\ svc.cnn_result = "authentic" /\ svc.cnn_confidence = 5000
    /\ svc.verdict = "suspicious" /\ svc.confidence_score = 8100

\* C30: when the two categories disagree at equal confidence,
\* _combine_results returns the classifier's category with 0.9 times that
\* confidence; ELA's category is returned on a disagreement only when its
\* confidence is strictly greater.
C30_TieGoesToClassifier ==
    (Combined /\ ~Agree) =>
        /\ svc.ela_confidence = svc.cnn_confidence =>
              /\ svc.verdict = svc.cnn_result
              /\ 10 * svc.confidence_score = 9 * svc.cnn_confidence
        /\ svc.verdict = svc.ela_result =>
              svc.ela_confidence > svc.cnn_confidence

\* A disagreement at equal confidence has been combined.
C30_Witness ==
    /\ Combined
    /\ svc.ela_result = "suspicious" /\ svc.cnn_result = "authentic"
    /\ svc.ela_confidence = 9000 /\ svc.cnn_confidence = 9000
    /\ svc.verdict = "authentic" /\ svc.confidence_score = 8100

\* The announcement has been analysed.
Analysed == svc.op = "analyze_announcement" /\ svc.pc = "returned"

\* Some figure claimed in the text is more than 50% away from the figure of
\* the same kind in the company's row.
ClaimDeviates ==
    /\ svc.company_financial # NULL
    /\ \/ /\ svc.full_text.revenue # NULL
          /\ svc.company_financial[1].last_quarter_revenue_cr # NULL
          /\ 2 * Abs(svc.full_text.revenue[1]
                     - svc.company_financial[1].last_quarter_revenue_cr[1])
                > svc.company_financial[1].last_quarter_revenue_cr[1]
       \/ /\ svc.full_text.profit # NULL
          /\ svc.company_financial[1].last_quarter_profit_cr # NULL
          /\ 2 * Abs(svc.full_text.profit[1]
                     - svc.company_financial[1].last_quarter_profit_cr[1])
                > svc.company_financial[1].last_quarter_profit_cr[1]

\* 10.0 less the penalties of the analysis, in tenths.
Penalised ==
    100 - 15 * Cardinality(svc.analysis_results.red_flags)
        - (IF svc.analysis_results.sentiment.label = "NEGATIVE" THEN 20 ELSE 0)
        - (IF svc.analysis_results.sentiment.label = "POSITIVE"
              /\ svc.analysis_results.sentiment.score > 80 THEN 10 ELSE 0)
        - (IF ClaimDeviates THEN 30 ELSE 0)

RevenueDeviates ==
    /\ svc.company_financial # NULL
    /\ svc.full_text.revenue # NULL
    /\ svc.company_financial[1].last_quarter_revenue_cr # NULL
    /\ svc.company_financial[1].last_quarter_revenue_cr[1] > 0
    /\ 2 * Abs(svc.full_text.revenue[1]
               - svc.company_financial[1].last_quarter_revenue_cr[1])
          > svc.company_financial[1].last_quarter_revenue_cr[1]

Category(label) ==
    CASE label = "promotional_hype" -> "promotional hype"
      [] label = "vague_language" -> "vague language"
      [] OTHER -> label

\* The categories the regular expressions can report, over every text.
FallbackTaxonomy ==
    { Category(l) : l \in UNION { _fallback_red_flag_analysis(t) : t \in AnnouncementTexts } }

\* The red flags came from the classifier, not from the fallback.
ClassifierPath ==
    /\ Analysed
    /\ ~svc.full_text.empty
    /\ svc.zero_shot_classifier # NULL
    /\ ~svc.zero_shot_classifier[1].raises

\* C24: every red-flag category the classifier path reports is a category
\* the regular-expression fallback can report.
C24_FallbackCoversTaxonomy ==
    ClassifierPath =>
        \A l \in svc.analysis_results.red_flags : Category(l) \in FallbackTaxonomy

PdfTasks == {"run_pdf_analysis", "_run_public_pdf_analysis"}

\* Both sub-analyses of analyze_pdf on this path end in an error record.
BothFail(file_path, out, doc) ==
    /\ ~pdfid_available \/ ~IsReadable(file_path) \/ out.error
    /\ ~IsReadable(file_path) \/ doc.corrupt

\* C25: when the PDFiD result and the pikepdf result are both error
\* records, analyze_pdf raises nothing and returns (authentic, 0.9), and the
\* task that called it leaves its Job completed with that verdict.
C25_BothFailedIsAuthentic ==
    [][\A t \in TaskIds, o \in PdfidOutputs, d \in PdfDocs, h \in BOOLEAN :
          ( /\ \/ run_pdf_analysis(t, o, d, TRUE, h)
               \/ _run_public_pdf_analysis(t, o, d, TRUE, h)
            /\ ~IsCloudPath(tasks[t].storage_path)
            /\ BothFail(tasks[t].storage_path, o, d) )
              => LET r == analyze_pdf(tasks[t].storage_path, pdfid_available, o, d)
                 IN  /\ ~r.raised
                     /\ r.evidence.pdfid_analysis.error
                     /\ r.evidence.pikepdf_analysis.error
                     /\ r.verdict = "authentic"
                     /\ r.confidence_score = 9000
                     /\ \A i \in RowsOfTask(t) :
                           /\ files'[i].analysis_status = "completed"
                           /\ files'[i].verdict = Some("authentic")
                           /\ files'[i].confidence_score = Some(9000)]_vars

\* A pdf task on a path that names no readable file, so that neither
\* sub-analysis could open it, has ended: its Job is completed, authentic at
\* 0.9.
C25_Witness ==
    \E t \in DOMAIN tasks :
        /\ tasks[t].fn \in PdfTasks
        /\ tasks[t].pc = "done"
        /\ tasks[t].storage_path = "filename"
        /\ \E i \in RowsOfTask(t) :
              /\ files[i].analysis_status = "completed"
              /\ files[i].verdict = Some("authentic")
              /\ files[i].confidence_score = Some(9000)
        /\ \E r \in reports :
              /\ r.task = t /\ r.analysis_type = "pdf_forensics"
              /\ r.result = "authentic" /\ r.confidence_score = 9000

\* The analysis types of the Report rows a completed Job of this file_type
\* has to have.
EvidenceOf(file_type) ==
    CASE file_type = "pdf" -> {"pdf_forensics"}
      [] file_type = "image" -> {"image_ela", "image_cnn"}
      [] OTHER -> {}

\* C26: in every committed state, a Job whose analysis_status is completed
\* has its evidence: a pdf Job a pdf_forensics Report row, an image Job an
\* image_ela and an image_cnn Report row.
C26_CompletedHasEvidence ==
    \A i \in DOMAIN files :
        files[i].analysis_status = "completed"
            => \A ty \in EvidenceOf(files[i].file_type) :
                  \E r \in ReportsOfJob(i) : r.analysis_type = ty

\* An image Job is completed and has both of its Report rows.
C26_Witness ==
    \E i \in DOMAIN files :
        /\ files[i].file_type = "image"
        /\ files[i].analysis_status = "completed"
        /\ \E r \in ReportsOfJob(i) : r.analysis_type = "image_ela"
        /\ \E r \in ReportsOfJob(i) : r.analysis_type = "image_cnn"

\* The upload found its content hash in the files table.
DuplicateUpload(content, input, store) ==
    /\ public_upload_file(content, input, store)
    /\ _get_file_type(input.filename, input.content_type) # "unknown"
    /\ existing_by_hash(_sha256(content)) # {}

\* C27: a /public/upload whose content hash already has a File row adds or
\* changes no File row, schedules no background task and writes no new
\* object to storage.
C27_DuplicateUploadChangesNothing ==
    [][\A c \in Contents, u \in UploadInputs, s \in StoreOutcomes :
          DuplicateUpload(c, u, s)
              => /\ UNCHANGED <<files, reports, tasks, reqs>>
                 /\ blobs' = blobs]_vars

Unanalysable == {"video", "audio"}

RejectedAsWrongType == {"File is not a PDF", "File is not an image"}

\* C28: a video or audio Job gets no background task and no analyze
\* endpoint takes it: in every state it is pending, has no verdict, and no
\* task or analyze request is there for it.
C28_VideoAudioStaysPending ==
    \A i \in DOMAIN files :
        files[i].file_type \in Unanalysable
            => /\ files[i].analysis_status = "pending"
               /\ files[i].verdict = NULL
               /\ TasksOfJob(files[i].file_id) = {}
               /\ \A r \in reqs : r.file_id # files[i].file_id

\* The only Job is a video, and an analyze request for it has been refused.
C28_Witness ==
    /\ Len(files) = 1
    /\ files[1].file_type = "video"
    /\ files[1].analysis_status = "pending"
    /\ resp.code = 400
    /\ resp.message \in RejectedAsWrongType

\* The analyze request for file_id is answered 404 or 400.
Rejected(kind, file_id) ==
    \/ row_by_file_id(file_id) = {}
    \/ \E i \in row_by_file_id(file_id) : files[i].file_type # kind

\* C29: an analyze request that is answered 404 (unknown file_id) or 400
\* (the Job's file_type is not the endpoint's) changes no Job and schedules
\* no task; so every pdf task is for a pdf Job and every image task for an
\* image Job.
C29_RejectedAnalyzeChangesNothing ==
    [][/\ \A kind \in {"pdf", "image"}, f \in FileIds :
             (analyze_request(kind, f) /\ Rejected(kind, f))
                 => /\ resp'.code \in {404, 400}
                    /\ UNCHANGED <<files, reports, tasks, reqs>>
       /\ \A t \in DOMAIN tasks' : \A i \in row_by_file_id(tasks'[t].file_id) :
             files'[i].file_type = IF tasks'[t].fn \in PdfTasks THEN "pdf" ELSE "image"]_vars

\* An analyze request for an image Job on the pdf endpoint has been refused:
\* the Job is as it was, with no task.
C29_Witness ==
    /\ Len(files) = 1
    /\ files[1].file_type = "image"
    /\ resp.code = 400
    /\ resp.message = "File is not a PDF"
    /\ tasks = <<>>
    /\ reqs = {}

====
